---------------------------- MODULE Spec2Model ----------------------------
(***************************************************************************)
(* Model of the metadata enrichment and ingestion code:                    *)
(*   fetch_metadata_from_doi.py, fetch_metadata_from_title.py (waterfall   *)
(*   lookups), ingestion_engine.py (normalize_doi, sanity check,           *)
(*   process_row, dedupe-and-append of ingest_data).                       *)
(*                                                                         *)
(* Python values are records [t, s]: t is the Python type and s is str()   *)
(* of the value as a sequence of text tokens.  A string is the             *)
(* concatenation of its tokens; the token alphabets used below are prefix  *)
(* codes in which every occurrence of a searched pattern is token-aligned, *)
(* so startswith / replace / strip on token sequences agree with the       *)
(* character-level operations on the strings they spell.                   *)
(***************************************************************************)
EXTENDS Integers, Sequences, FiniteSets, TLC

VARIABLES
    \* normalize_doi: argument, result, which copy ran
    nd_in, nd_out, nd_fn,
    \* one waterfall lookup: mode, key argument, position, running record (meta),
    \* local doi / cleaned title, requests issued and sleeps (in order),
    \* whether the last merge was offered another value for a field already set,
    \* the last provider whose block failed, returned value
    l_mode, l_key, l_pc, l_meta, l_doi, l_title, l_log, l_contested, l_failed, l_result,
    \* process_row: the row as read, the row being processed, position, and per
    \* entity the lookup that ran and what it returned
    r_in, r_row, r_pc, r_meta, r_lookup,
    \* sanity_check_metadata: the row's year cell, the candidate record, the answer
    s_year, s_meta, s_out,
    \* ingest_data: master and processed rows, loop position, rows to append,
    \* duplicates found, updated master, position
    g_master, g_batch, g_idx, g_append, g_dups, g_updated, g_pc,
    \* ingest_data before the dedupe stage: the flag, the input rows, loop
    \* position, processed rows, lookups invoked, position
    p_skip, p_input, p_idx, p_processed, p_lookups, p_pc,
    \* enrich applied twice: which enrich, running record, provider result,
    \* the record after one and after two merges, position
    m_fn, m_cur, m_new, m_once, m_twice, m_pc

norm_vars == <<nd_in, nd_out, nd_fn>>
lookup_vars == <<l_mode, l_key, l_pc, l_meta, l_doi, l_title, l_log, l_contested, l_failed, l_result>>
sanity_vars == <<s_year, s_meta, s_out>>
ingest_vars == <<g_master, g_batch, g_idx, g_append, g_dups, g_updated, g_pc>>
pipe_vars == <<p_skip, p_input, p_idx, p_processed, p_lookups, p_pc>>
merge_vars == <<m_fn, m_cur, m_new, m_once, m_twice, m_pc>>
row_vars == <<r_in, r_row, r_pc, r_meta, r_lookup>>
vars == <<nd_in, nd_out, nd_fn,
          l_mode, l_key, l_pc, l_meta, l_doi, l_title, l_log, l_contested, l_failed, l_result,
          r_in, r_row, r_pc, r_meta, r_lookup,
          s_year, s_meta, s_out,
          g_master, g_batch, g_idx, g_append, g_dups, g_updated, g_pc,
          p_skip, p_input, p_idx, p_processed, p_lookups, p_pc,
          m_fn, m_cur, m_new, m_once, m_twice, m_pc>>

---------------------------------------------------------------------------
(* Bounds *)

\* longest identifier string (in tokens) fed to normalize_doi
MaxDoiLen == 5
\* most mapped fields a successful provider response leaves empty
MaxGaps == 1
\* most columns in which an input row differs from a fully populated row
MaxEdits == 2
\* most text tokens in a year
MaxYearLen == 3
\* most rows in the master and in the processed batch
MaxMaster == 2
MaxBatch == 2
\* most rows in the input file
MaxInput == 2

---------------------------------------------------------------------------
(* Python values *)

None_ == [t |-> "none", s |-> <<"None">>]
NaN == [t |-> "float", s |-> <<"nan">>]
Str(x) == [t |-> "str", s |-> x]
Pending == [t |-> "pending", s |-> <<>>]

IsStr(v) == v.t = "str"

\* sequences over A of length 0..n
RECURSIVE SeqsUpTo(_, _)
SeqsUpTo(A, n) ==
    IF n = 0 THEN {<<>>}
    ELSE LET shorter == SeqsUpTo(A, n - 1)
         IN shorter \cup {Append(x, a) : x \in {y \in shorter : Len(y) = n - 1}, a \in A}

\* str.startswith
StartsWith(x, p) == Len(x) >= Len(p) /\ SubSeq(x, 1, Len(p)) = p

\* str.replace(p, ""): every non-overlapping occurrence, left to right
RECURSIVE Replace(_, _)
Replace(x, p) ==
    IF x = <<>> THEN <<>>
    ELSE IF StartsWith(x, p) THEN Replace(SubSeq(x, Len(p) + 1, Len(x)), p)
    ELSE <<Head(x)>> \o Replace(Tail(x), p)

\* str.strip(): leading and trailing whitespace
RECURSIVE LStrip(_)
LStrip(x) == IF x # <<>> /\ Head(x) = " " THEN LStrip(Tail(x)) ELSE x
RECURSIVE RStrip(_)
RStrip(x) == IF x # <<>> /\ x[Len(x)] = " " THEN RStrip(SubSeq(x, 1, Len(x) - 1)) ELSE x
Strip(x) == RStrip(LStrip(x))

---------------------------------------------------------------------------
(* normalize_doi *)

HttpDoi == <<"http://", "doi.org/">>
HttpsDoi == <<"https://", "doi.org/">>
HttpDx == <<"http://", "dx.", "doi.org/">>
HttpsDx == <<"https://", "dx.", "doi.org/">>
KnownPrefixes == {HttpDoi, HttpsDoi, HttpDx, HttpsDx}

\* the if/elif chain: str.replace of the first known prefix the string starts with
StripPrefix(d) ==
    IF StartsWith(d, HttpDoi) THEN Replace(d, HttpDoi)
    ELSE IF StartsWith(d, HttpsDoi) THEN Replace(d, HttpsDoi)
    ELSE IF StartsWith(d, HttpDx) THEN Replace(d, HttpDx)
    ELSE IF StartsWith(d, HttpsDx) THEN Replace(d, HttpsDx)
    ELSE d

\* ingestion_engine.normalize_doi
normalize_doi(doi) ==
    IF ~IsStr(doi) \/ Strip(doi.s) = <<>> THEN None_
    ELSE LET d == StripPrefix(Strip(doi.s))
         IN IF d # <<>> THEN Str(d) ELSE None_

\* fetch_metadata_from_title.normalize_doi (a textual copy)
title_normalize_doi(doi) ==
    IF ~IsStr(doi) \/ Strip(doi.s) = <<>> THEN None_
    ELSE LET d == StripPrefix(Strip(doi.s))
         IN IF d # <<>> THEN Str(d) ELSE None_

---------------------------------------------------------------------------
(* Waterfall merge engine: fetch_metadata_from_doi, fetch_metadata_from_title *)

PlainFields == {"authors", "title", "journal", "volume", "issue", "pages", "year"}
\* the fields DataCite and Semantic Scholar are mapped to
ShortFields == {"authors", "title", "journal", "year"}
DoiFields == PlainFields \cup {"url"}
TitleFields == DoiFields \cup {"doi"}

\* the list [None, "", "NaN"]
EmptyVals == {None_, Str(<<>>), Str(<<"NaN">>)}

Absent == [t |-> "absent", s |-> <<>>]
Raised == [t |-> "exception", s |-> <<>>]
NoDict == [f \in {} |-> None_]

\* dict.get(key) of a key that may be absent
Get(v) == IF v = Absent THEN None_ ELSE v

\* Python truth value
Truthy(v) ==
    CASE v.t = "none" -> FALSE
      [] v.t = "absent" -> FALSE
      [] v.t = "str" -> v.s # <<>>
      [] OTHER -> TRUE

\* a or b
Or(a, b) == IF Truthy(Get(a)) THEN a ELSE b

\* f"https://doi.org/{doi}"
DoiUrl(doi) == Str(HttpsDoi \o doi.s)

\* a merge that lets the later provider win
enrich_overwrite(current, new) ==
    IF DOMAIN new = {} THEN current
    ELSE [k \in DOMAIN current \cup {f \in DOMAIN new : new[f] \notin EmptyVals} |->
            IF k \in DOMAIN new /\ new[k] \notin EmptyVals THEN new[k] ELSE current[k]]

\* a merge that joins the two values of a field both records have
enrich_accumulate(current, new) ==
    IF DOMAIN new = {} THEN current
    ELSE [k \in DOMAIN current \cup {f \in DOMAIN new : new[f] \notin EmptyVals} |->
            IF k \in DOMAIN new /\ new[k] \notin EmptyVals
            THEN IF k \notin DOMAIN current \/ current[k] \in EmptyVals
                 THEN new[k]
                 ELSE [t |-> "str", s |-> current[k].s \o new[k].s]
            ELSE current[k]]

\* fetch_metadata_from_doi.enrich
enrich(current, new) ==
    IF DOMAIN new = {} THEN current
    ELSE [k \in DOMAIN current \cup {f \in DOMAIN new : new[f] \notin EmptyVals} |->
            IF /\ k \in DOMAIN new
               /\ (k \notin DOMAIN current \/ current[k] \in EmptyVals)
               /\ new[k] \notin EmptyVals
            THEN new[k]
            ELSE current[k]]

\* fetch_metadata_from_title.enrich
title_enrich(current, new) ==
    IF DOMAIN new = {} THEN current
    ELSE [k \in DOMAIN current \cup {f \in DOMAIN new : new[f] \notin EmptyVals} |->
            IF /\ k \in DOMAIN new
               /\ (k \notin DOMAIN current \/ current[k] \in EmptyVals)
               /\ new[k] \notin EmptyVals
            THEN new[k]
            ELSE current[k]]

\* fetch_metadata_from_doi.is_complete
is_complete(m) == \A k \in DOMAIN m : m[k] \notin EmptyVals

\* fetch_metadata_from_title.is_complete
title_is_complete(m) == \A k \in DOMAIN m : m[k] \notin EmptyVals

\* where the function stands after a block's merge
Going(next) == [pc |-> next, result |-> Pending]
Returned(m) == [pc |-> "done", result |-> m]

\* a block that merges and goes on without looking at completeness
after_merge_unchecked(m, next) == Going(next)

\* fetch_metadata_from_doi: "if is_complete(meta): return meta" after a merge
after_merge(m, next) == IF is_complete(m) THEN Returned(m) ELSE Going(next)

\* fetch_metadata_from_title: "if is_complete(meta): return meta" after a merge
title_after_merge(m, next) == IF title_is_complete(m) THEN Returned(m) ELSE Going(next)

\* an exception that leaves the function
except_propagate(next) == Returned(Raised)

\* a failure that starts the waterfall again
except_restart(next) == Going("openalex")

\* "except Exception: pass" of a provider block
except_pass(next) == Going(next)

\* "except Exception: pass" of a provider block (fetch_metadata_from_title)
title_except_pass(next) == Going(next)

\* re.sub(r"\(\s*\d{4}\s*\)", "", title)
RemoveYear(x) == SelectSeq(x, LAMBDA tok : tok # "(2019)")
\* re.sub(r"[\s\-\.,:;]+$", "", title)
RECURSIVE RStripPunct(_)
RStripPunct(x) ==
    IF x # <<>> /\ x[Len(x)] \in {" ", "."} THEN RStripPunct(SubSeq(x, 1, Len(x) - 1)) ELSE x
clean_title(title) == Str(Strip(RStripPunct(RemoveYear(title.s))))

(* What a provider's response is mapped to.  A response r gives, for the
   fields the provider is mapped to, the provider's own value except for the
   fields in r.gaps, which hold one of None, "" and "NaN"; r.rawdoi and
   r.rawurl are the identifier and direct url found in the response. *)
GapValue(f) ==
    CASE f \in {"authors", "volume", "year"} -> None_
      [] f \in {"title", "issue"} -> Str(<<>>)
      [] OTHER -> Str(<<"NaN">>)
PlainDict(p, fields, r) == [f \in fields |-> IF f \in r.gaps THEN GapValue(f) ELSE Str(<<p>>)]

doi_dict(p, doi, r) ==
    CASE p = "openalex" ->
            PlainDict(p, PlainFields, r) @@ ("url" :> Or(r.rawurl, DoiUrl(doi)))
      [] p = "datacite" ->
            PlainDict(p, ShortFields, r) @@ ("url" :> Or(r.rawurl, DoiUrl(doi)))
      [] p = "crossref" ->
            PlainDict(p, PlainFields, r) @@ ("url" :> DoiUrl(doi))
      [] p = "unpaywall" ->
            PlainDict(p, PlainFields, r) @@ ("url" :> Or(r.rawurl, DoiUrl(doi)))
      [] p = "europepmc" ->
            PlainDict(p, PlainFields, r)
                @@ ("url" :> IF r.rawurl = Absent THEN DoiUrl(doi) ELSE r.rawurl)
      [] p = "semanticscholar" ->
            PlainDict(p, ShortFields, r) @@ ("url" :> Or(r.rawurl, DoiUrl(doi)))

title_openalex_dict(r) ==
    LET doi == title_normalize_doi(r.rawdoi)
    IN PlainDict("openalex", PlainFields, r)
         @@ ("doi" :> doi)
         @@ ("url" :> IF Truthy(doi) THEN DoiUrl(doi) ELSE Get(r.rawurl))

title_crossref_dict(r) ==
    LET doi == title_normalize_doi(r.rawdoi)
    IN PlainDict("crossref", PlainFields, r)
         @@ ("doi" :> doi)
         @@ ("url" :> IF Truthy(doi) THEN DoiUrl(doi) ELSE None_)

title_europepmc_dict(r) ==
    PlainDict("europepmc", PlainFields, r)
      @@ ("doi" :> title_normalize_doi(r.rawdoi))
      @@ ("url" :> Get(r.rawurl))

title_datacite_dict(doi, r) ==
    PlainDict("datacite", ShortFields, r) @@ ("url" :> Or(r.rawurl, DoiUrl(doi)))

title_semanticscholar_dict(doi, r) ==
    LET d == Or(doi, title_normalize_doi(r.rawdoi))
    IN PlainDict("semanticscholar", ShortFields, r)
         @@ ("doi" :> d)
         @@ ("url" :> Or(r.rawurl, IF Truthy(d) THEN DoiUrl(d) ELSE None_))

\* no default url
doi_fallback_none(m, doi) == m

\* fetch_metadata_from_doi: default fallback
doi_fallback(m, doi) == IF ~Truthy(m["url"]) THEN [m EXCEPT !["url"] = DoiUrl(doi)] ELSE m

\* fetch_metadata_from_title: default fallback
title_fallback(m) ==
    IF Truthy(m["doi"]) /\ ~Truthy(m["url"]) THEN [m EXCEPT !["url"] = DoiUrl(m["doi"])] ELSE m

---------------------------------------------------------------------------
(* ingestion_engine: helpers of process_row *)

Entities == {"original", "replication"}
EntityFields == {"url", "title", "authors", "journal", "volume", "issue", "pages", "year"}
AllCols == Entities \X EntityFields

\* a number, by its str()
IntVal(x) == [t |-> "int", s |-> x]
FloatVal(x) == [t |-> "float", s |-> x]

\* row.get(col) / metadata.get(key)
RowGet(row, c) == IF c \in DOMAIN row THEN row[c] ELSE None_
NoMeta == NoDict

extract_doi_from_url(url) ==
    IF ~IsStr(url) \/ Strip(url.s) = <<>> THEN None_
    ELSE LET u == Strip(url.s)
         IN IF StartsWith(u, HttpDoi) THEN Str(Replace(u, HttpDoi))
            ELSE IF StartsWith(u, HttpsDoi) THEN Str(Replace(u, HttpsDoi))
            ELSE None_

is_empty(value) ==
    \/ value.t = "none"
    \/ value = NaN
    \/ IsStr(value) /\ (value.s = <<>> \/ value.s = <<"NaN">> \/ Strip(value.s) = <<>>)

\* characters of a text token, and whether it holds a "."
TokenLen(tok) ==
    CASE tok = "J." -> 2
      [] tok = " Sci" -> 4
      [] tok = " " -> 1
      [] OTHER -> 18
RECURSIVE CharLen(_)
CharLen(x) == IF x = <<>> THEN 0 ELSE TokenLen(Head(x)) + CharLen(Tail(x))
HasDot(x) == \E i \in 1..Len(x) : x[i] \in {"J.", "J. ", "."}
\* " J. " in authors or authors.startswith("J. "), for some capital letter
HasInitial(x) ==
    \E i \in 1..Len(x) : x[i] = "J. " /\ (i = 1 \/ x[i - 1] \in {"; ", "Jane ", " "})

ShortJournalLen == 10

needs_enrichment(row, prefix) ==
    \/ \E f \in PlainFields : <<prefix, f>> \in DOMAIN row /\ is_empty(row[<<prefix, f>>])
    \/ LET authors == RowGet(row, <<prefix, "authors">>)
       IN IsStr(authors) /\ Strip(authors.s) # <<>> /\ HasInitial(authors.s)
    \/ LET journal == RowGet(row, <<prefix, "journal">>)
       IN IsStr(journal) /\ CharLen(Strip(journal.s)) < ShortJournalLen /\ HasDot(journal.s)

\* the fold writing every value the record has
enrich_from_metadata_overwrite(row, prefix, metadata) ==
    IF DOMAIN metadata = {} THEN row
    ELSE [c \in DOMAIN row |->
            IF /\ c[1] = prefix /\ c[2] \in PlainFields
               /\ c[2] \in DOMAIN metadata /\ Truthy(metadata[c[2]])
            THEN metadata[c[2]]
            ELSE row[c]]

enrich_from_metadata(row, prefix, metadata) ==
    IF DOMAIN metadata = {} THEN row
    ELSE [c \in DOMAIN row |->
            IF /\ c[1] = prefix /\ c[2] \in PlainFields
               /\ is_empty(row[c])
               /\ c[2] \in DOMAIN metadata /\ Truthy(metadata[c[2]])
            THEN metadata[c[2]]
            ELSE row[c]]

\* existing_value.replace(".0", "") == fetched_value.replace(".0", "")
SameYear(existing, fetched) == Replace(existing, <<".0">>) = Replace(fetched, <<".0">>)

sanity_check_metadata(row, prefix, metadata) ==
    IF DOMAIN metadata = {} THEN FALSE
    ELSE IF <<prefix, "year">> \in DOMAIN row /\ ~is_empty(row[<<prefix, "year">>])
         THEN LET existing_value == Strip(row[<<prefix, "year">>].s)
                  fetched_value ==
                      IF "year" \in DOMAIN metadata THEN Strip(metadata["year"].s) ELSE <<>>
              IN IF fetched_value # <<>>
                 THEN SameYear(existing_value, fetched_value)
                 ELSE TRUE
         ELSE TRUE

\* the title branch without the sanity check
title_branch_unchecked(row, prefix, metadata) ==
    IF DOMAIN metadata # {} /\ "doi" \in DOMAIN metadata /\ Truthy(metadata["doi"])
    THEN LET normalized_doi == normalize_doi(metadata["doi"])
         IN IF Truthy(normalized_doi)
            THEN enrich_from_metadata(
                    (<<prefix, "url">> :> Str(HttpDoi \o normalized_doi.s)) @@ row,
                    prefix, metadata)
            ELSE row
    ELSE row

\* the title branch writing the identifier as returned
title_branch_raw(row, prefix, metadata) ==
    IF DOMAIN metadata # {} /\ "doi" \in DOMAIN metadata /\ Truthy(metadata["doi"])
    THEN IF sanity_check_metadata(row, prefix, metadata)
         THEN enrich_from_metadata(
                 (<<prefix, "url">> :> Str(HttpDoi \o metadata["doi"].s)) @@ row,
                 prefix, metadata)
         ELSE row
    ELSE row

\* process_row: what is done with the result of fetch_metadata_from_title
title_branch(row, prefix, metadata) ==
    IF DOMAIN metadata # {} /\ "doi" \in DOMAIN metadata /\ Truthy(metadata["doi"])
    THEN IF sanity_check_metadata(row, prefix, metadata)
         THEN LET normalized_doi == normalize_doi(metadata["doi"])
              IN IF Truthy(normalized_doi)
                 THEN enrich_from_metadata(
                         (<<prefix, "url">> :> Str(HttpDoi \o normalized_doi.s)) @@ row,
                         prefix, metadata)
                 ELSE row
         ELSE row
    ELSE row

\* the identifier lookup for every url that resolves
Branch_without_need(row, prefix) ==
    LET url == RowGet(row, <<prefix, "url">>)
    IN IF Truthy(extract_doi_from_url(url)) THEN "doi"
       ELSE IF is_empty(url) /\ ~is_empty(RowGet(row, <<prefix, "title">>)) THEN "title"
       ELSE "none"

\* process_row: which lookup an entity gets
Branch(row, prefix) ==
    LET url == RowGet(row, <<prefix, "url">>)
    IN IF Truthy(extract_doi_from_url(url)) /\ needs_enrichment(row, prefix) THEN "doi"
       ELSE IF is_empty(url) /\ ~is_empty(RowGet(row, <<prefix, "title">>)) THEN "title"
       ELSE "none"

---------------------------------------------------------------------------
(* One lookup, provider block by provider block *)

\* what a successful response may leave empty, and the raw identifier and url it carries
GapSets(fields) == {g \in SUBSET fields : Cardinality(g) <= MaxGaps}
Responses(fields, dois, urls) == [gaps : GapSets(fields), rawdoi : dois, rawurl : urls]

BareDoi == <<"10.1/", "Ab">>
\* raw identifiers: none, one that normalize_doi strips to BareDoi (a bare raw
\* identifier normalises to the same value), one that keeps a prefix after stripping
RawDois ==
    {None_, Str(HttpsDoi \o BareDoi), Str(HttpDx \o HttpsDoi)}
ProviderUrl(p) == Str(<<"http://", p>>)

DoiResponses(p) ==
    Responses(IF p \in {"datacite", "semanticscholar"} THEN ShortFields ELSE PlainFields,
              {None_},
              IF p = "crossref" THEN {None_}
              ELSE IF p = "europepmc" THEN {Absent, None_, ProviderUrl(p)}
              ELSE {None_, ProviderUrl(p)})

TitleResponses(p) ==
    Responses(IF p \in {"datacite", "semanticscholar"} THEN ShortFields ELSE PlainFields,
              IF p = "datacite" THEN {None_} ELSE RawDois,
              IF p = "crossref" THEN {None_} ELSE {None_, ProviderUrl(p)})

\* how a block can end without a merge: requests.get raises, status is not 200,
\* the mapping raises, the result list is empty
Failures(p) ==
    {"neterr", "status", "malformed"}
        \cup (IF p \in {"europepmc", "title_openalex", "title_crossref"} THEN {"empty"} ELSE {})
IsException(k) == k \in {"neterr", "malformed"}

DoiKeys == {Str(<<" ">> \o BareDoi), Str(<<" ">>), None_}
TitleKeys == {Str(<<"Some Effect", " ", "(2019)">>), Str(<<" ">>), NaN}

\* the merge is offered a different non-empty value for a field that is already set
Contested(current, new) ==
    \E k \in DOMAIN new \cap DOMAIN current :
        current[k] \notin EmptyVals /\ new[k] \notin EmptyVals /\ new[k] # current[k]

Log(p, by, key) == [p |-> p, by |-> by, key |-> key]
Sleep == [p |-> "sleep", by |-> "none", key |-> None_]
Calls == SelectSeq(l_log, LAMBDA e : e.p # "sleep")
Called(p) == \E i \in 1..Len(l_log) : l_log[i].p = p

PipeIdle ==
    /\ p_skip = FALSE /\ p_input = <<>> /\ p_idx = 0 /\ p_processed = <<>>
    /\ p_lookups = {} /\ p_pc = "idle"

MergeIdle ==
    /\ m_fn = "none" /\ m_cur = NoDict /\ m_new = NoDict
    /\ m_once = NoDict /\ m_twice = NoDict /\ m_pc = "idle"

SanityIdle == s_year = None_ /\ s_meta = NoDict /\ s_out = "idle"

IngestIdle ==
    /\ g_master = <<>> /\ g_batch = <<>> /\ g_idx = 0 /\ g_append = <<>>
    /\ g_dups = 0 /\ g_updated = <<>> /\ g_pc = "idle"

RowIdle ==
    /\ r_in = NoDict /\ r_row = NoDict /\ r_pc = "idle"
    /\ r_meta = NoDict /\ r_lookup = NoDict

NormIdle ==
    /\ nd_in = None_
    /\ nd_out = Pending
    /\ nd_fn = "none"

LookupIdle ==
    /\ l_mode = "none" /\ l_key = None_ /\ l_pc = "idle" /\ l_meta = NoDict
    /\ l_doi = None_ /\ l_title = None_ /\ l_log = <<>> /\ l_contested = FALSE
    /\ l_failed = "none" /\ l_result = Pending

LookupEntry ==
    /\ l_mode \in {"doi", "title"}
    /\ l_key \in (IF l_mode = "doi" THEN DoiKeys ELSE TitleKeys)
    /\ l_pc = "start" /\ l_meta = NoDict
    /\ l_doi = None_ /\ l_title = None_ /\ l_log = <<>> /\ l_contested = FALSE
    /\ l_failed = "none" /\ l_result = Pending

\* the guard on the key, strip / cleaning, and the empty record
LookupStart ==
    /\ l_pc = "start"
    /\ IF ~IsStr(l_key) \/ Strip(l_key.s) = <<>>
       THEN /\ l_pc' = "done" /\ l_result' = None_
            /\ UNCHANGED <<l_meta, l_doi, l_title>>
       ELSE /\ l_pc' = "openalex" /\ l_result' = Pending
            /\ l_meta' = [f \in (IF l_mode = "doi" THEN DoiFields ELSE TitleFields) |-> None_]
            /\ l_doi' = (IF l_mode = "doi" THEN Str(Strip(l_key.s)) ELSE None_)
            /\ l_title' = (IF l_mode = "doi" THEN None_ ELSE clean_title(l_key))
    /\ UNCHANGED <<l_mode, l_key, l_log, l_contested, l_failed>>
    /\ UNCHANGED <<norm_vars, row_vars, sanity_vars, ingest_vars, pipe_vars, merge_vars>>

\* fetch_metadata_from_doi: blocks 1..5 (time.sleep follows the first block only)
DoiProvider(p, next) ==
    /\ l_mode = "doi" /\ l_pc = p
    /\ \/ \E r \in DoiResponses(p) :
            LET new == doi_dict(p, l_doi, r)
                m == enrich(l_meta, new)
                a == after_merge(m, next)
            IN /\ l_meta' = m /\ l_contested' = Contested(l_meta, new)
               /\ l_pc' = a.pc /\ l_result' = a.result
               /\ l_log' = l_log \o <<Log(p, "doi", l_doi)>>
                    \o (IF p = "openalex" /\ a.pc # "done" THEN <<Sleep>> ELSE <<>>)
               /\ UNCHANGED l_failed
       \/ \E k \in Failures(p) :
            LET a == IF IsException(k) THEN except_pass(next) ELSE Going(next)
            IN /\ l_pc' = a.pc /\ l_result' = a.result
               /\ l_log' = l_log \o <<Log(p, "doi", l_doi)>>
                    \o (IF p = "openalex" /\ a.pc # "done" THEN <<Sleep>> ELSE <<>>)
               /\ l_failed' = (IF k = "empty" THEN l_failed ELSE p)
               /\ UNCHANGED <<l_meta, l_contested>>
    /\ UNCHANGED <<l_mode, l_key, l_doi, l_title>>
    /\ UNCHANGED <<norm_vars, row_vars, sanity_vars, ingest_vars, pipe_vars, merge_vars>>

\* fetch_metadata_from_doi: block 6, the default fallback and the return
DoiSemanticScholar ==
    /\ l_mode = "doi" /\ l_pc = "semanticscholar"
    /\ \/ \E r \in DoiResponses("semanticscholar") :
            LET new == doi_dict("semanticscholar", l_doi, r)
                m == enrich(l_meta, new)
                a == after_merge(m, "fallback")
                final == IF a.pc = "fallback" THEN doi_fallback(m, l_doi) ELSE m
            IN /\ l_meta' = final /\ l_contested' = Contested(l_meta, new)
               /\ l_pc' = "done"
               /\ l_result' = (IF a.pc = "fallback" THEN final ELSE a.result)
               /\ UNCHANGED l_failed
       \/ \E k \in Failures("semanticscholar") :
            LET a == IF IsException(k) THEN except_pass("fallback") ELSE Going("fallback")
                final == IF a.pc = "fallback" THEN doi_fallback(l_meta, l_doi) ELSE l_meta
            IN /\ l_meta' = final
               /\ l_pc' = "done"
               /\ l_result' = (IF a.pc = "fallback" THEN final ELSE a.result)
               /\ l_failed' = "semanticscholar"
               /\ UNCHANGED l_contested
    /\ l_log' = l_log \o <<Log("semanticscholar", "doi", l_doi)>>
    /\ UNCHANGED <<l_mode, l_key, l_doi, l_title>>
    /\ UNCHANGED <<norm_vars, row_vars, sanity_vars, ingest_vars, pipe_vars, merge_vars>>

\* fetch_metadata_from_title: block 1, time.sleep and doi = meta.get("doi")
TitleOpenAlex ==
    /\ l_mode = "title" /\ l_pc = "openalex"
    /\ \/ \E r \in TitleResponses("openalex") :
            LET new == title_openalex_dict(r)
                m == title_enrich(l_meta, new)
                a == title_after_merge(m, "crossref")
            IN /\ l_meta' = m /\ l_contested' = Contested(l_meta, new)
               /\ l_pc' = a.pc /\ l_result' = a.result
               /\ l_doi' = (IF a.pc = "done" THEN new["doi"] ELSE m["doi"])
               /\ l_log' = l_log \o <<Log("openalex", "title", l_title)>>
                    \o (IF a.pc # "done" THEN <<Sleep>> ELSE <<>>)
               /\ UNCHANGED l_failed
       \/ \E k \in Failures("title_openalex") :
            LET a == IF IsException(k) THEN title_except_pass("crossref") ELSE Going("crossref")
            IN /\ l_pc' = a.pc /\ l_result' = a.result
               /\ l_doi' = l_meta["doi"]
               /\ l_log' = l_log \o <<Log("openalex", "title", l_title)>>
                    \o (IF a.pc # "done" THEN <<Sleep>> ELSE <<>>)
               /\ l_failed' = (IF k = "empty" THEN l_failed ELSE "openalex")
               /\ UNCHANGED <<l_meta, l_contested>>
    /\ UNCHANGED <<l_mode, l_key, l_title>>
    /\ UNCHANGED <<norm_vars, row_vars, sanity_vars, ingest_vars, pipe_vars, merge_vars>>

\* fetch_metadata_from_title: block 2, under "if not doi"
TitleCrossref ==
    /\ l_mode = "title" /\ l_pc = "crossref"
    /\ \/ /\ Truthy(l_doi)
          /\ l_pc' = "europepmc"
          /\ UNCHANGED <<l_meta, l_contested, l_doi, l_log, l_failed, l_result>>
       \/ /\ ~Truthy(l_doi)
          /\ \E r \in TitleResponses("crossref") :
                LET new == title_crossref_dict(r)
                    m == title_enrich(l_meta, new)
                    a == title_after_merge(m, "europepmc")
                IN /\ l_meta' = m /\ l_contested' = Contested(l_meta, new)
                   /\ l_pc' = a.pc /\ l_result' = a.result
                   /\ l_doi' = new["doi"]
                   /\ UNCHANGED l_failed
          /\ l_log' = l_log \o <<Log("crossref", "title", l_title)>>
       \/ /\ ~Truthy(l_doi)
          /\ \E k \in Failures("title_crossref") :
                LET a == IF IsException(k) THEN title_except_pass("europepmc")
                         ELSE Going("europepmc")
                IN /\ l_pc' = a.pc /\ l_result' = a.result
                   /\ l_failed' = (IF k = "empty" THEN l_failed ELSE "crossref")
          /\ l_log' = l_log \o <<Log("crossref", "title", l_title)>>
          /\ UNCHANGED <<l_meta, l_contested, l_doi>>
       \/ \* the mapping raises after "doi = normalize_doi(item.get("DOI"))"
          /\ ~Truthy(l_doi)
          /\ \E raw \in RawDois :
                LET a == title_except_pass("europepmc")
                IN /\ l_pc' = a.pc /\ l_result' = a.result
                   /\ l_doi' = title_normalize_doi(raw)
          /\ l_failed' = "crossref"
          /\ l_log' = l_log \o <<Log("crossref", "title", l_title)>>
          /\ UNCHANGED <<l_meta, l_contested>>
    /\ UNCHANGED <<l_mode, l_key, l_title>>
    /\ UNCHANGED <<norm_vars, row_vars, sanity_vars, ingest_vars, pipe_vars, merge_vars>>

\* fetch_metadata_from_title: block 3, under the second "if not doi"
TitleEuropePMC ==
    /\ l_mode = "title" /\ l_pc = "europepmc"
    /\ \/ /\ Truthy(l_doi)
          /\ l_pc' = "datacite"
          /\ UNCHANGED <<l_meta, l_contested, l_doi, l_log, l_failed, l_result>>
       \/ /\ ~Truthy(l_doi)
          /\ \E r \in TitleResponses("europepmc") :
                LET new == title_europepmc_dict(r)
                    m == title_enrich(l_meta, new)
                    a == title_after_merge(m, "datacite")
                IN /\ l_meta' = m /\ l_contested' = Contested(l_meta, new)
                   /\ l_pc' = a.pc /\ l_result' = a.result
                   /\ l_doi' = m["doi"]
                   /\ UNCHANGED l_failed
          /\ l_log' = l_log \o <<Log("europepmc", "title", l_title)>>
       \/ /\ ~Truthy(l_doi)
          /\ \E k \in Failures("europepmc") :
                LET a == IF IsException(k) THEN title_except_pass("datacite")
                         ELSE Going("datacite")
                IN /\ l_pc' = a.pc /\ l_result' = a.result
                   /\ l_failed' = (IF k = "empty" THEN l_failed ELSE "europepmc")
          /\ l_log' = l_log \o <<Log("europepmc", "title", l_title)>>
          /\ UNCHANGED <<l_meta, l_contested, l_doi>>
    /\ UNCHANGED <<l_mode, l_key, l_title>>
    /\ UNCHANGED <<norm_vars, row_vars, sanity_vars, ingest_vars, pipe_vars, merge_vars>>

\* fetch_metadata_from_title: block 4, under "if doi"
TitleDataCite ==
    /\ l_mode = "title" /\ l_pc = "datacite"
    /\ \/ /\ ~Truthy(l_doi)
          /\ l_pc' = "semanticscholar"
          /\ UNCHANGED <<l_meta, l_contested, l_log, l_failed, l_result>>
       \/ /\ Truthy(l_doi)
          /\ \E r \in TitleResponses("datacite") :
                LET new == title_datacite_dict(l_doi, r)
                    m == title_enrich(l_meta, new)
                    a == title_after_merge(m, "semanticscholar")
                IN /\ l_meta' = m /\ l_contested' = Contested(l_meta, new)
                   /\ l_pc' = a.pc /\ l_result' = a.result
                   /\ UNCHANGED l_failed
          /\ l_log' = l_log \o <<Log("datacite", "doi", l_doi)>>
       \/ /\ Truthy(l_doi)
          /\ \E k \in Failures("datacite") :
                LET a == IF IsException(k) THEN title_except_pass("semanticscholar")
                         ELSE Going("semanticscholar")
                IN /\ l_pc' = a.pc /\ l_result' = a.result
                   /\ l_failed' = "datacite"
          /\ l_log' = l_log \o <<Log("datacite", "doi", l_doi)>>
          /\ UNCHANGED <<l_meta, l_contested>>
    /\ UNCHANGED <<l_mode, l_key, l_doi, l_title>>
    /\ UNCHANGED <<norm_vars, row_vars, sanity_vars, ingest_vars, pipe_vars, merge_vars>>

\* fetch_metadata_from_title: block 5 (no completeness check), the default
\* fallback and the return
TitleSemanticScholar ==
    /\ l_mode = "title" /\ l_pc = "semanticscholar"
    /\ \/ \E r \in TitleResponses("semanticscholar") :
            LET new == title_semanticscholar_dict(l_doi, r)
                final == title_fallback(title_enrich(l_meta, new))
            IN /\ l_meta' = final /\ l_contested' = Contested(l_meta, new)
               /\ l_result' = final
               /\ l_doi' = new["doi"]
               /\ UNCHANGED l_failed
       \/ \E k \in Failures("semanticscholar") :
            LET a == IF IsException(k) THEN title_except_pass("fallback") ELSE Going("fallback")
                final == IF a.pc = "fallback" THEN title_fallback(l_meta) ELSE l_meta
            IN /\ l_meta' = final
               /\ l_result' = (IF a.pc = "fallback" THEN final ELSE a.result)
               /\ l_failed' = "semanticscholar"
               /\ UNCHANGED <<l_contested, l_doi>>
    /\ l_pc' = "done"
    /\ l_log' = l_log \o <<IF Truthy(l_doi) THEN Log("semanticscholar", "doi", l_doi)
                           ELSE Log("semanticscholar", "title", l_title)>>
    /\ UNCHANGED <<l_mode, l_key, l_title>>
    /\ UNCHANGED <<norm_vars, row_vars, sanity_vars, ingest_vars, pipe_vars, merge_vars>>

LookupInit == LookupEntry /\ NormIdle /\ RowIdle /\ SanityIdle /\ IngestIdle /\ PipeIdle /\ MergeIdle

LookupNext ==
    \/ LookupStart
    \/ DoiProvider("openalex", "datacite")
    \/ DoiProvider("datacite", "crossref")
    \/ DoiProvider("crossref", "unpaywall")
    \/ DoiProvider("unpaywall", "europepmc")
    \/ DoiProvider("europepmc", "semanticscholar")
    \/ DoiSemanticScholar
    \/ TitleOpenAlex
    \/ TitleCrossref
    \/ TitleEuropePMC
    \/ TitleDataCite
    \/ TitleSemanticScholar

SpecLookup == LookupInit /\ [][LookupNext]_vars

InLookup == l_pc \notin {"idle", "start"} /\ DOMAIN l_meta # {}
KeyIsBlank == ~IsStr(l_key) \/ Strip(l_key.s) = <<>>
Complete(m) == IF l_mode = "doi" THEN is_complete(m) ELSE title_is_complete(m)
DoiOrder == <<"openalex", "datacite", "crossref", "unpaywall", "europepmc", "semanticscholar">>

(* C1: in both lookups, a field of the running record that holds a non-empty
   value keeps exactly that value through every later step of the lookup,
   whatever the later provider returns for it. *)
C1_FillOnlyIfEmpty ==
    [][InLookup =>
          \A f \in DOMAIN l_meta :
              l_meta[f] \notin EmptyVals => (f \in DOMAIN l_meta' /\ l_meta'[f] = l_meta[f])]_vars

\* a later provider offered another non-empty value for a field set before it
C1_Witness ==
    /\ InLookup /\ l_contested /\ Len(Calls) >= 2
    /\ \E f \in DOMAIN l_meta : l_meta[f] = Str(<<"openalex">>)

(* C2: as soon as the running record is complete after a merge the lookup has
   returned that record, so no provider is queried once the record is
   complete. *)
C2_EarlyExit ==
    (InLookup /\ Complete(l_meta)) => (l_pc = "done" /\ l_result = l_meta)

\* the first provider alone gave a complete record: one provider call was made
C2_Witness ==
    /\ InLookup /\ Complete(l_meta) /\ l_pc = "done"
    /\ Len(Calls) = 1 /\ Calls[1].p = "openalex"

(* C3: with a non-blank key the lookup never raises; when it ends without a
   complete record it returns the accumulated record, after having queried the
   last provider (and, in identifier mode, all six providers in order), also
   when blocks before it failed. *)
C3_NeverRaises ==
    /\ l_result # Raised
    /\ (l_pc = "done" /\ ~KeyIsBlank) =>
          /\ l_result = l_meta
          /\ DOMAIN l_result = (IF l_mode = "doi" THEN DoiFields ELSE TitleFields)
          /\ ~Complete(l_result) =>
                /\ Calls[Len(Calls)].p = "semanticscholar"
                /\ l_mode = "doi" => [i \in 1..Len(Calls) |-> Calls[i].p] = DoiOrder
                /\ l_mode = "title" => Calls[1].p = "openalex"

\* a block failed, later providers were still queried, a partial record came back
C3_Witness ==
    /\ l_pc = "done" /\ ~KeyIsBlank /\ l_failed = "openalex"
    /\ l_result = l_meta /\ ~Complete(l_result)
    /\ \E f \in DOMAIN l_result : l_result[f] \notin EmptyVals
    /\ Len(Calls) >= 2

(* C14: in title mode a provider whose lookup fails is treated as having
   returned no data: the step of a failed provider leaves the running record
   and the identifier the later blocks are gated on as they were, so the blocks
   queried after it and the record returned are those of an empty result. *)
C14_FailureIsEmpty ==
    [][(l_mode = "title" /\ l_failed' # l_failed) =>
            (l_meta' = l_meta /\ l_doi' = l_doi)]_vars

\* the blocks of fetch_metadata_from_title, top to bottom
TitleOrder == <<"openalex", "crossref", "europepmc", "datacite", "semanticscholar">>
\* the place of a provider in a list
Place(order, p) == CHOOSE i \in 1..Len(order) : order[i] = p
\* the calls so far name providers of the list, each later in the list than the call before
InOrder(order) ==
    /\ \A i \in 1..Len(Calls) : \E k \in 1..Len(order) : order[k] = Calls[i].p
    /\ \A i, j \in 1..Len(Calls) :
          i < j => Place(order, Calls[i].p) < Place(order, Calls[j].p)
Sources == {Calls[i].p : i \in 1..Len(Calls)}

(* C15 as stated: the calls of a lookup are a subsequence of the mode's list,
   each provider at most once; identifier mode consults at most four distinct
   sources and title mode at most five. *)
C15_FixedOrder_AsStated ==
    /\ l_mode = "doi" => InOrder(DoiOrder) /\ Cardinality(Sources) <= 4
    /\ l_mode = "title" => InOrder(TitleOrder) /\ Cardinality(Sources) <= 5

(* C15 amended: the calls of a lookup are a subsequence of the mode's list, each
   provider at most once; identifier mode consults at most six distinct sources
   (OpenAlex, DataCite, Crossref, Unpaywall, Europe PMC, Semantic Scholar) and
   title mode at most five. *)
C15_FixedOrder ==
    /\ l_mode = "doi" =>
          InOrder(DoiOrder) /\ Cardinality(Sources) <= 6 /\ Len(Calls) = Cardinality(Sources)
    /\ l_mode = "title" =>
          InOrder(TitleOrder) /\ Cardinality(Sources) <= 5 /\ Len(Calls) = Cardinality(Sources)

\* an identifier lookup that went through all six blocks, one of them failing
C15_Witness ==
    /\ l_mode = "doi" /\ l_pc = "done" /\ l_failed # "none"
    /\ [i \in 1..Len(Calls) |-> Calls[i].p] = DoiOrder

\* the lookup returned a record
ReturnedRecord == l_pc = "done" /\ l_result \notin {None_, Raised, Pending}

(* C16: every record the identifier lookup returns for a non-blank identifier
   has a non-empty url, and every record the title lookup returns with its
   identifier set has a non-empty url. *)
C16_UrlFallback ==
    ReturnedRecord =>
        /\ l_mode = "doi" => l_result["url"] \notin EmptyVals /\ Truthy(l_result["url"])
        /\ (l_mode = "title" /\ Truthy(l_result["doi"])) =>
              l_result["url"] \notin EmptyVals /\ Truthy(l_result["url"])

\* no provider gave anything: the url is built from the identifier
C16_Witness ==
    /\ ReturnedRecord /\ l_mode = "doi" /\ l_failed = "semanticscholar"
    /\ \A f \in PlainFields : l_result[f] = None_
    /\ l_result["url"] = DoiUrl(l_doi)

\* no two provider requests follow each other without the delay in between
Delayed(log) == \A i \in 1..(Len(log) - 1) : log[i] = Sleep \/ log[i + 1] = Sleep

(* C17: in a lookup, between every two consecutive provider calls the
   inter-call delay is observed. *)
C17_DelayBetweenCalls == Delayed(l_log)

\* the step sends a request to provider p
Queries(p) ==
    /\ Len(l_log') > Len(l_log)
    /\ \E i \in (Len(l_log) + 1)..Len(l_log') : l_log'[i].p = p
\* how the request sent in the step addresses provider p
QueriedBy(p) ==
    LET i == CHOOSE j \in (Len(l_log) + 1)..Len(l_log') : l_log'[j].p = p
    IN l_log'[i].by

(* C21: in a title lookup DataCite is queried only when an earlier provider of
   the lookup yielded an identifier that was merged into the running record;
   the Crossref and Europe PMC title searches are issued only while no
   identifier has been discovered; Semantic Scholar is queried by identifier
   when one is known and by title otherwise. *)
C21_TitleGating ==
    [][l_mode = "title" =>
        /\ Queries("datacite") => Truthy(l_meta["doi"])
        /\ (Queries("crossref") \/ Queries("europepmc")) =>
                (~Truthy(l_doi) /\ ~Truthy(l_meta["doi"]))
        /\ Queries("semanticscholar") =>
                (QueriedBy("semanticscholar") = "doi" <=>
                    (Truthy(l_doi) \/ Truthy(l_meta["doi"])))]_vars

---------------------------------------------------------------------------
(* process_row on one row *)

Year2020 == <<"20", "20">>
Year2019 == <<"20", "19">>
\* a fully populated entity, and what a column may hold instead
BaseValue(f) ==
    CASE f = "url" -> Str(HttpDoi \o BareDoi)
      [] f = "title" -> Str(<<"Some Effect", " ", "(2019)">>)
      [] f = "authors" -> Str(<<"Jane ", "Doe">>)
      [] f = "journal" -> Str(<<"Journal of Science">>)
      [] f = "year" -> FloatVal(Year2020 \o <<".0">>)
      [] OTHER -> Str(<<"7">>)
OtherValues(f) ==
    CASE f = "url" -> {NaN, Str(<<"http://", "example/">>), Str(HttpDoi)}
      [] f = "title" -> {NaN, IntVal(<<"7">>)}
      [] f = "authors" -> {NaN, Str(<<"J. ", "Doe">>)}
      [] f = "journal" -> {NaN, Str(<<"J.", " Sci">>)}
      [] f = "year" -> {NaN, Str(Year2019)}
      [] OTHER -> {NaN}

\* rows that differ from the fully populated row in at most n columns
BaseRow == [c \in AllCols |-> BaseValue(c[2])]
RECURSIVE RowsWithEdits(_)
RowsWithEdits(n) ==
    IF n = 0 THEN {BaseRow}
    ELSE LET prev == RowsWithEdits(n - 1)
         IN prev \cup UNION {{[row EXCEPT ![c] = v] : v \in OtherValues(c[2])} :
                                row \in prev, c \in AllCols}
RowInputs == RowsWithEdits(MaxEdits)

\* records the lookups return: an identifier (None, bare, or a resolver prefix
\* left over by normalize_doi), a year, and the other fields all set or all unset
MetaRecord(doi, year, rest) ==
    [f \in TitleFields |->
        CASE f = "doi" -> doi
          [] f = "year" -> year
          [] f = "url" -> IF Truthy(doi) THEN DoiUrl(doi) ELSE None_
          [] OTHER -> rest]
MetaYears == {None_, IntVal(Year2020), FloatVal(Year2020 \o <<".0">>), Str(Year2019)}
TitleResults(title) ==
    IF ~IsStr(title) \/ Strip(title.s) = <<>> THEN {NoMeta}
    ELSE {MetaRecord(d, y, v) :
            d \in {None_, Str(BareDoi), Str(HttpsDoi), Str(HttpsDoi \o BareDoi)},
            y \in MetaYears,
            v \in {None_, Str(<<"api">>)}}
DoiResults(doi) ==
    IF ~IsStr(doi) \/ Strip(doi.s) = <<>> THEN {NoMeta}
    ELSE {[f \in DoiFields |-> MetaRecord(doi, y, v)[f]] :
            y \in MetaYears, v \in {None_, Str(<<"api">>)}}

NotCalled == [f \in {"not called"} |-> None_]

RowEntry ==
    /\ r_in \in RowInputs
    /\ r_row = r_in
    /\ r_pc = "original"
    /\ r_meta = [e \in Entities |-> NotCalled]
    /\ r_lookup = [e \in Entities |-> "none"]

NextEntity(prefix) == IF prefix = "original" THEN "replication" ELSE "done"

\* the identifier branch: fetch_metadata_from_doi, then enrich_from_metadata
ProcessByDoi(prefix) ==
    /\ r_pc = prefix
    /\ Branch(r_row, prefix) = "doi"
    /\ \E metadata \in DoiResults(extract_doi_from_url(r_row[<<prefix, "url">>])) :
          /\ r_row' = enrich_from_metadata(r_row, prefix, metadata)
          /\ r_meta' = [r_meta EXCEPT ![prefix] = metadata]
    /\ r_lookup' = [r_lookup EXCEPT ![prefix] = "doi"]
    /\ r_pc' = NextEntity(prefix)
    /\ UNCHANGED r_in
    /\ UNCHANGED <<norm_vars, lookup_vars, sanity_vars, ingest_vars, pipe_vars, merge_vars>>

\* the title branch: fetch_metadata_from_title, sanity check, url and fields
ProcessByTitle(prefix) ==
    /\ r_pc = prefix
    /\ Branch(r_row, prefix) = "title"
    /\ \/ \* replication: the title is sliced for the message before the lookup
          /\ prefix = "replication" /\ ~IsStr(r_row[<<prefix, "title">>])
          /\ r_pc' = "crashed"
          /\ UNCHANGED <<r_row, r_meta, r_lookup>>
       \/ /\ prefix = "original" \/ IsStr(r_row[<<prefix, "title">>])
          /\ \E metadata \in TitleResults(r_row[<<prefix, "title">>]) :
                /\ r_row' = title_branch(r_row, prefix, metadata)
                /\ r_meta' = [r_meta EXCEPT ![prefix] = metadata]
          /\ r_lookup' = [r_lookup EXCEPT ![prefix] = "title"]
          /\ r_pc' = NextEntity(prefix)
    /\ UNCHANGED r_in
    /\ UNCHANGED <<norm_vars, lookup_vars, sanity_vars, ingest_vars, pipe_vars, merge_vars>>

\* neither branch applies
ProcessNothing(prefix) ==
    /\ r_pc = prefix
    /\ Branch(r_row, prefix) = "none"
    /\ r_pc' = NextEntity(prefix)
    /\ UNCHANGED <<r_in, r_row, r_meta, r_lookup>>
    /\ UNCHANGED <<norm_vars, lookup_vars, sanity_vars, ingest_vars, pipe_vars, merge_vars>>

RowInit == RowEntry /\ NormIdle /\ LookupIdle /\ SanityIdle /\ IngestIdle /\ PipeIdle /\ MergeIdle

RowNext ==
    \/ ProcessByDoi("original")
    \/ ProcessByTitle("original")
    \/ ProcessNothing("original")
    \/ ProcessByDoi("replication")
    \/ ProcessByTitle("replication")
    \/ ProcessNothing("replication")

SpecRow == RowInit /\ [][RowNext]_vars

\* the entity's columns are as they were read
EntityUnchanged(e) == \A f \in EntityFields : r_row[<<e, f>>] = r_in[<<e, f>>]
\* the year check of the validator, on the row as read
YearMismatch(e) ==
    /\ ~is_empty(r_in[<<e, "year">>]) /\ Strip(r_meta[e]["year"].s) # <<>>
    /\ Replace(Strip(r_in[<<e, "year">>].s), <<".0">>)
          # Replace(Strip(r_meta[e]["year"].s), <<".0">>)

(* C7: when the title-driven lookup for an entity returns no record, a record
   without an identifier, or an identifier the year check rejects, every field
   of that entity (url included) is the same after process_row as before. *)
C7_RejectedLeavesEntity ==
    \A e \in Entities :
        (r_lookup[e] = "title"
            /\ (\/ r_meta[e] = NoMeta
                \/ ~Truthy(r_meta[e]["doi"])
                \/ YearMismatch(e)))
        => EntityUnchanged(e)

\* an identifier came back and the year check rejected it
C7_Witness ==
    \E e \in Entities :
        /\ r_lookup[e] = "title" /\ r_meta[e] # NoMeta
        /\ Truthy(r_meta[e]["doi"]) /\ YearMismatch(e)
        /\ \E f \in PlainFields : is_empty(r_in[<<e, f>>]) /\ Truthy(r_meta[e][f])
        /\ EntityUnchanged(e)

\* process_row is past the entity
Processed(e) ==
    IF e = "original" THEN r_pc \in {"replication", "done", "crashed"} ELSE r_pc = "done"

(* C11: for every entity and every tracked field (authors, title, journal,
   volume, issue, pages, year), a field of the row that was non-empty before
   process_row has the same value after it, whatever the lookups return and
   whatever triggered the enrichment. *)
C11_RowFillOnlyIfEmpty ==
    \A e \in Entities : \A f \in PlainFields :
        ~is_empty(r_in[<<e, f>>]) => r_row[<<e, f>>] = r_in[<<e, f>>]

\* enrichment triggered by abbreviated authors alone; the record has other authors
C11_Witness ==
    \E e \in Entities :
        /\ r_lookup[e] = "doi" /\ Processed(e)
        /\ \A f \in PlainFields : ~is_empty(r_in[<<e, f>>])
        /\ HasInitial(r_in[<<e, "authors">>].s)
        /\ Truthy(r_meta[e]["authors"]) /\ r_meta[e]["authors"] # r_in[<<e, "authors">>]
        /\ r_row[<<e, "authors">>] = r_in[<<e, "authors">>]

(* C12: for each entity process_row has handled, the identifier lookup ran
   exactly when the url resolves to a non-empty identifier and needs_enrichment
   is true, the title lookup ran exactly when the url is empty and the title is
   not, and otherwise no lookup ran and the entity's fields are unchanged. *)
C12_OneLookup ==
    \A e \in Entities :
        LET url == r_in[<<e, "url">>]
            by_doi == Truthy(extract_doi_from_url(url)) /\ needs_enrichment(r_in, e)
            by_title == is_empty(url) /\ ~is_empty(r_in[<<e, "title">>])
        IN /\ (r_lookup[e] = "doi" => by_doi /\ ~by_title /\ r_meta[e] # NotCalled)
           /\ (r_lookup[e] = "title" => by_title /\ ~by_doi /\ r_meta[e] # NotCalled)
           /\ (r_lookup[e] = "none" => r_meta[e] = NotCalled /\ EntityUnchanged(e))
           /\ (Processed(e) /\ by_doi => r_lookup[e] = "doi")
           /\ (Processed(e) /\ by_title => r_lookup[e] = "title")

\* one entity with a resolvable url and nothing to enrich, the other with a url
\* that is no identifier: no lookup for either
C12_Witness ==
    /\ r_pc = "done"
    /\ r_lookup["original"] = "none" /\ r_lookup["replication"] = "none"
    /\ Truthy(extract_doi_from_url(r_in[<<"original", "url">>]))
    /\ ~is_empty(r_in[<<"replication", "url">>])
    /\ ~Truthy(extract_doi_from_url(r_in[<<"replication", "url">>]))

\* the title lookup gave an identifier and the validator accepted it
Accepted(e) ==
    /\ r_lookup[e] = "title" /\ r_meta[e] # NoMeta
    /\ Truthy(r_meta[e]["doi"]) /\ ~YearMismatch(e)

(* C8 as stated: whenever the title lookup yields an identifier d and the
   validator accepts, the entity's url is "http://doi.org/" followed by the
   normalized form of d. *)
C8_UrlFromIdentifier_AsStated ==
    \A e \in Entities :
        Accepted(e) => r_row[<<e, "url">>] = Str(HttpDoi \o normalize_doi(r_meta[e]["doi"]).s)

(* C8 amended: whenever the title lookup yields an identifier d, the validator
   accepts and normalize_doi(d) is not unset, the entity's url is
   "http://doi.org/" followed by normalize_doi(d); when normalize_doi(d) is
   unset the url stays as it was. *)
C8_UrlFromIdentifier ==
    \A e \in Entities :
        Accepted(e) =>
            LET nd == normalize_doi(r_meta[e]["doi"])
            IN IF nd # None_
               THEN r_row[<<e, "url">>] = Str(HttpDoi \o nd.s)
               ELSE r_row[<<e, "url">>] = r_in[<<e, "url">>]

\* identifier 10.1/Ab, no prior year in the row: the url is http://doi.org/10.1/Ab
C8_Witness ==
    /\ Accepted("original")
    /\ r_meta["original"]["doi"] = Str(BareDoi)
    /\ r_meta["original"]["year"] = IntVal(Year2020)
    /\ is_empty(r_in[<<"original", "year">>])
    /\ r_row[<<"original", "url">>] = Str(<<"http://", "doi.org/", "10.1/", "Ab">>)

---------------------------------------------------------------------------
(* sanity_check_metadata applied to one row year and one candidate record *)

YearAlphabet == {"20", "19", ".0", " "}
YearTexts == SeqsUpTo(YearAlphabet, MaxYearLen)
\* the year cell of the row; Absent: the row has no year column
RowYears == {Absent, NaN, FloatVal(Year2020 \o <<".0">>)} \cup {Str(x) : x \in YearTexts}
\* candidate records: none, one without a year key, one per year value
Candidates ==
    {NoMeta, [f \in {"doi"} |-> Str(BareDoi)]}
        \cup {[doi |-> Str(BareDoi), year |-> y] :
                y \in {None_, IntVal(Year2020), FloatVal(Year2020 \o <<".0">>)}
                        \cup {Str(x) : x \in YearTexts}}

YearRow(prefix, year) ==
    IF year = Absent THEN (<<prefix, "url">> :> NaN)
    ELSE (<<prefix, "url">> :> NaN) @@ (<<prefix, "year">> :> year)

SanityInit ==
    /\ s_year \in RowYears
    /\ s_meta \in Candidates
    /\ s_out = "pending"
    /\ NormIdle /\ LookupIdle /\ RowIdle /\ IngestIdle /\ PipeIdle /\ MergeIdle

SanityCheck ==
    /\ s_out = "pending"
    /\ \E prefix \in Entities :
          s_out' = IF sanity_check_metadata(YearRow(prefix, s_year), prefix, s_meta)
                   THEN "accept" ELSE "reject"
    /\ UNCHANGED <<s_year, s_meta>>
    /\ UNCHANGED <<norm_vars, lookup_vars, row_vars, ingest_vars, pipe_vars, merge_vars>>

SanityNext == SanityCheck

SpecSanity == SanityInit /\ [][SanityNext]_vars

\* a text without one trailing ".0"
DropTrailing(x) ==
    IF x # <<>> /\ x[Len(x)] = ".0" THEN SubSeq(x, 1, Len(x) - 1) ELSE x
\* str(value).strip() of the candidate's year; a record without the key has none
CandidateYear == IF "year" \in DOMAIN s_meta THEN Strip(s_meta["year"].s) ELSE <<>>
RowHasYear == s_year # Absent /\ ~is_empty(s_year)

(* C9: sanity_check_metadata accepts a non-empty candidate record exactly when
   the row has no non-empty year for the entity, or the row's year and the
   candidate's year are equal as strings after a trailing ".0" is removed from
   each. *)
C9_YearMatch ==
    (s_out # "pending" /\ s_meta # NoMeta) =>
        (s_out = "accept" <=>
            (\/ ~RowHasYear
             \/ DropTrailing(Strip(s_year.s)) = DropTrailing(CandidateYear)))

---------------------------------------------------------------------------
(* ingest_data: checking duplicates and appending *)

\* cells of the three key columns
U1 == Str(<<"http://", "doi.org/", "10.1/", "Ab">>)
R1 == Str(<<"http://", "doi.org/", "10.1/", "r1">>)
R2 == Str(<<"http://", "doi.org/", "10.1/", "r2">>)
D1 == Str(<<"Some Effect">>)
Triple(o, r, d) == [original_url |-> o, replication_url |-> r, description |-> d]
\* a reference triple and triples that differ from it in one column: another
\* value, a missing value (NaN after read_csv), a number
Triples ==
    {Triple(U1, R1, D1), Triple(NaN, R1, D1), Triple(U1, R2, D1), Triple(U1, NaN, D1),
     Triple(U1, R1, NaN), Triple(U1, R1, IntVal(<<"7">>))}
\* a row: the key columns and where the rest of its columns came from
DataRow(k, from) ==
    [original_url |-> k.original_url, replication_url |-> k.replication_url,
     description |-> k.description, rest |-> from]
MasterRows == {DataRow(k, "master") : k \in Triples}
BatchRows == {DataRow(k, "input") : k \in Triples}

\* an equality under which two missing values are equal
PyEq_missing_equal(a, b) == a = b

\* elementwise ==: a missing value equals nothing, itself included
PyEq(a, b) == a # NaN /\ b # NaN /\ a = b

check_duplicate(row, master_df) ==
    IF master_df = <<>> THEN FALSE
    ELSE \E i \in 1..Len(master_df) :
            /\ PyEq(master_df[i].original_url, row.original_url)
            /\ PyEq(master_df[i].replication_url, row.replication_url)
            /\ PyEq(master_df[i].description, row.description)

\* the new rows put before the master rows
concat_reversed(master_df, rows_to_append) ==
    IF rows_to_append # <<>> THEN rows_to_append \o master_df ELSE master_df

\* pd.concat([master_df, new_rows_df], ignore_index=True), or master_df as it is
concat(master_df, rows_to_append) ==
    IF rows_to_append # <<>> THEN master_df \o rows_to_append ELSE master_df

IngestEntry ==
    /\ g_master \in SeqsUpTo(MasterRows, MaxMaster)
    /\ g_batch \in SeqsUpTo(BatchRows, MaxBatch)
    /\ g_idx = 1
    /\ g_append = <<>>
    /\ g_dups = 0
    /\ g_updated = <<>>
    /\ g_pc = "loop"

\* one iteration of the loop over processed_df: a duplicate
SkipDuplicate ==
    /\ g_pc = "loop" /\ g_idx <= Len(g_batch)
    /\ check_duplicate(g_batch[g_idx], g_master)
    /\ IF IsStr(g_batch[g_idx].description)
       THEN /\ g_dups' = g_dups + 1
            /\ g_idx' = g_idx + 1
            /\ UNCHANGED g_pc
       ELSE \* the description is sliced for the warning
            /\ g_pc' = "crashed"
            /\ UNCHANGED <<g_dups, g_idx>>
    /\ UNCHANGED <<g_master, g_batch, g_append, g_updated>>
    /\ UNCHANGED <<norm_vars, lookup_vars, row_vars, sanity_vars, pipe_vars, merge_vars>>

\* one iteration of the loop over processed_df: not a duplicate
KeepRow ==
    /\ g_pc = "loop" /\ g_idx <= Len(g_batch)
    /\ ~check_duplicate(g_batch[g_idx], g_master)
    /\ g_append' = Append(g_append, g_batch[g_idx])
    /\ g_idx' = g_idx + 1
    /\ UNCHANGED <<g_master, g_batch, g_dups, g_updated, g_pc>>
    /\ UNCHANGED <<norm_vars, lookup_vars, row_vars, sanity_vars, pipe_vars, merge_vars>>

\* after the loop: the updated master
AppendRows ==
    /\ g_pc = "loop" /\ g_idx > Len(g_batch)
    /\ g_updated' = concat(g_master, g_append)
    /\ g_pc' = "done"
    /\ UNCHANGED <<g_master, g_batch, g_idx, g_append, g_dups>>
    /\ UNCHANGED <<norm_vars, lookup_vars, row_vars, sanity_vars, pipe_vars, merge_vars>>

IngestInit == IngestEntry /\ NormIdle /\ LookupIdle /\ RowIdle /\ SanityIdle /\ PipeIdle /\ MergeIdle

IngestNext == SkipDuplicate \/ KeepRow \/ AppendRows

SpecIngest == IngestInit /\ [][IngestNext]_vars

\* the same triple, cell by cell (two missing cells are the same)
SameTriple(a, b) ==
    /\ a.original_url = b.original_url
    /\ a.replication_url = b.replication_url
    /\ a.description = b.description
InMaster(row) == \E i \in 1..Len(g_master) : SameTriple(g_master[i], row)

(* C4: in the loop over the processed rows, a row whose (original_url,
   replication_url, description) triple equals that of some master row is not
   put on the rows to append, and a row that differs from every master row in
   one of the three fields is put on them (one more row in the updated master). *)
C4_DedupeOnTriple ==
    [][(g_pc = "loop" /\ g_idx' = g_idx + 1) =>
          IF InMaster(g_batch[g_idx])
          THEN g_append' = g_append
          ELSE g_append' = Append(g_append, g_batch[g_idx])]_vars

\* no two rows of a dataset match on all three fields under ==
NoTwoMatch(df) ==
    \A i, j \in 1..Len(df) :
        i # j => ~(/\ PyEq(df[i].original_url, df[j].original_url)
                   /\ PyEq(df[i].replication_url, df[j].replication_url)
                   /\ PyEq(df[i].description, df[j].description))

(* C5: if no two rows of the master have the same triple before ingest_data,
   no two rows of the updated master have the same triple after it. *)
C5_DuplicateFree == (g_pc = "done" /\ NoTwoMatch(g_master)) => NoTwoMatch(g_updated)

\* the rows of a batch, in order, that check_duplicate does not find in the master
RECURSIVE NonDuplicates(_, _)
NonDuplicates(batch, master_df) ==
    IF batch = <<>> THEN <<>>
    ELSE IF \E i \in 1..Len(master_df) :
                /\ PyEq(master_df[i].original_url, Head(batch).original_url)
                /\ PyEq(master_df[i].replication_url, Head(batch).replication_url)
                /\ PyEq(master_df[i].description, Head(batch).description)
         THEN NonDuplicates(Tail(batch), master_df)
         ELSE <<Head(batch)>> \o NonDuplicates(Tail(batch), master_df)

(* C6: after ingest_data the updated master is the previous master, every row
   unchanged and in its previous place, followed by the input rows that were
   not found to be duplicates, in input order. *)
C6_AppendOnly ==
    g_pc = "done" =>
        /\ Len(g_updated) >= Len(g_master)
        /\ SubSeq(g_updated, 1, Len(g_master)) = g_master
        /\ SubSeq(g_updated, Len(g_master) + 1, Len(g_updated))
              = NonDuplicates(g_batch, g_master)
        /\ Len(g_updated) = Len(g_master) + Len(g_batch) - g_dups

\* a batch with a row that matches a master row and a row that does not
C6_Witness ==
    /\ g_pc = "done" /\ g_master # <<>> /\ g_dups >= 1
    /\ Len(g_updated) = Len(g_master) + 1
    /\ g_updated[Len(g_updated)].rest = "input"
    /\ \A i \in 1..Len(g_master) : g_updated[i].rest = "master"

\* a row with a missing cell in one of the three key columns
HasMissing(row) ==
    row.original_url = NaN \/ row.replication_url = NaN \/ row.description = NaN

(* C22: a processed row in which original_url, replication_url or description
   is missing is never counted as a duplicate: the loop puts it on the rows to
   append, whatever the master holds (a master row with the same three values
   and the same cells missing included), and the updated master has it after
   the master rows. *)
C22_MissingNeverDuplicate ==
    [][/\ (g_pc = "loop" /\ g_idx <= Len(g_batch) /\ HasMissing(g_batch[g_idx])) =>
            /\ g_append' = Append(g_append, g_batch[g_idx])
            /\ g_dups' = g_dups
            /\ g_idx' = g_idx + 1
       /\ g_pc' = "done" =>
            \A i \in 1..Len(g_batch) :
                HasMissing(g_batch[i]) =>
                    \E j \in (Len(g_master) + 1)..Len(g_updated') :
                        g_updated'[j] = g_batch[i]]_vars

\* a row with a missing key cell, ingested again: the master already has a row
\* with the same triple and the updated master has it once more
C22_Witness ==
    /\ g_pc = "done" /\ g_dups = 0 /\ Len(g_batch) = 1
    /\ HasMissing(g_batch[1]) /\ InMaster(g_batch[1])
    /\ Len(g_updated) = Len(g_master) + 1
    /\ g_updated[Len(g_updated)] = g_batch[1]

---------------------------------------------------------------------------
(* ingest_data: steps 1 and 2, from the input rows to the dedupe stage *)

\* int(year) raises on a text that is not an integer literal
DigitTokens == {"20", "19", "7"}
IntRaises(v) == IsStr(v) /\ \E i \in 1..Len(Strip(v.s)) : Strip(v.s)[i] \notin DigitTokens
\* format_authors: parts[0] of a first author that is blank
AuthorsRaise(v) == IsStr(v) /\ Strip(v.s) # <<>> /\ Head(Strip(v.s)) = "; "
\* generate_citation_html_for_website raises for an entity of the row
citation_raises(row, prefix) ==
    \/ AuthorsRaise(RowGet(row, <<prefix, "authors">>))
    \/ LET year == RowGet(row, <<prefix, "year">>)
       IN year.t # "none" /\ year # NaN /\ IntRaises(year)

\* process_row on one entity: the rows it can leave, the lookup it ran, whether it raised
EntityOutcomes(row, prefix) ==
    LET b == Branch(row, prefix)
        title == RowGet(row, <<prefix, "title">>)
    IN IF b = "doi"
       THEN {[row |-> enrich_from_metadata(row, prefix, metadata), lookup |-> "doi", raised |-> FALSE] :
                metadata \in DoiResults(extract_doi_from_url(row[<<prefix, "url">>]))}
       ELSE IF b = "title"
       THEN IF prefix = "replication" /\ ~IsStr(title)
            THEN {[row |-> row, lookup |-> "none", raised |-> TRUE]}
            ELSE {[row |-> title_branch(row, prefix, metadata), lookup |-> "title", raised |-> FALSE] :
                    metadata \in TitleResults(title)}
       ELSE {[row |-> row, lookup |-> "none", raised |-> FALSE]}

\* process_row: original entity, then replication entity
RowOutcomes(row) ==
    UNION {{[row |-> o2.row, original |-> o1.lookup, replication |-> o2.lookup, raised |-> o2.raised] :
                o2 \in EntityOutcomes(o1.row, "replication")} :
           o1 \in EntityOutcomes(row, "original")}

\* input rows: complete; no original url; a number as replication title and no
\* replication url; a year that is the text "2020.0"; abbreviated authors
PipeRows ==
    {BaseRow,
     [BaseRow EXCEPT ![<<"original", "url">>] = NaN],
     [BaseRow EXCEPT ![<<"replication", "url">>] = NaN,
                     ![<<"replication", "title">>] = IntVal(<<"7">>)],
     [BaseRow EXCEPT ![<<"original", "year">>] = Str(Year2020 \o <<".0">>)],
     [BaseRow EXCEPT ![<<"original", "authors">>] = Str(<<"J. ", "Doe">>)]}

\* every row is enriched, whatever the flag says
step1_always_enrich(skip_api_calls) == "enrich"

\* if skip_api_calls: processed_df = input_df.copy(), else the loop over the rows
step1(skip_api_calls) == IF skip_api_calls THEN "copy" ELSE "enrich"

\* the lookups of one processed row, as (row index, entity, lookup)
LookupsOf(i, o) ==
    {<<i, e, o[e]>> : e \in {x \in Entities : o[x] # "none"}}

PipeEntry ==
    /\ p_skip \in BOOLEAN
    /\ p_input \in SeqsUpTo(PipeRows, MaxInput)
    /\ p_idx = 1
    /\ p_processed = <<>>
    /\ p_lookups = {}
    /\ p_pc = "step1"

\* step 1 with the flag set
CopyInput ==
    /\ p_pc = "step1" /\ step1(p_skip) = "copy"
    /\ p_processed' = p_input
    /\ p_pc' = "citations"
    /\ UNCHANGED <<p_skip, p_input, p_idx, p_lookups>>
    /\ UNCHANGED <<norm_vars, lookup_vars, row_vars, sanity_vars, ingest_vars, merge_vars>>

\* step 1 without the flag: one iteration of the loop, no try around process_row
ProcessRow ==
    /\ p_pc = "step1" /\ step1(p_skip) = "enrich"
    /\ p_idx <= Len(p_input)
    /\ \E o \in RowOutcomes(p_input[p_idx]) :
          /\ p_lookups' = p_lookups \cup LookupsOf(p_idx, o)
          /\ IF o.raised
             THEN /\ p_pc' = "aborted"
                  /\ UNCHANGED <<p_idx, p_processed>>
             ELSE /\ p_processed' = Append(p_processed, o.row)
                  /\ p_idx' = p_idx + 1
                  /\ UNCHANGED p_pc
    /\ UNCHANGED <<p_skip, p_input>>
    /\ UNCHANGED <<norm_vars, lookup_vars, row_vars, sanity_vars, ingest_vars, merge_vars>>

\* step 1 without the flag: the loop is over
EndStep1 ==
    /\ p_pc = "step1" /\ step1(p_skip) = "enrich"
    /\ p_idx > Len(p_input)
    /\ p_pc' = "citations"
    /\ UNCHANGED <<p_skip, p_input, p_idx, p_processed, p_lookups>>
    /\ UNCHANGED <<norm_vars, lookup_vars, row_vars, sanity_vars, ingest_vars, merge_vars>>

\* step 2: df.apply over the rows, no try around the citation of a row
GenerateCitations ==
    /\ p_pc = "citations"
    /\ p_pc' = IF \E i \in 1..Len(p_processed) : \E e \in Entities :
                      citation_raises(p_processed[i], e)
               THEN "aborted" ELSE "dedupe"
    /\ UNCHANGED <<p_skip, p_input, p_idx, p_processed, p_lookups>>
    /\ UNCHANGED <<norm_vars, lookup_vars, row_vars, sanity_vars, ingest_vars, merge_vars>>

PipeInit ==
    PipeEntry /\ NormIdle /\ LookupIdle /\ RowIdle /\ SanityIdle /\ IngestIdle /\ MergeIdle

PipeNext == CopyInput \/ ProcessRow \/ EndStep1 \/ GenerateCitations

SpecPipe == PipeInit /\ [][PipeNext]_vars

(* C13: a malformed input row does not abort ingest_data: the run never stops
   before the dedupe stage, whatever the rows of the batch hold. *)
C13_FaultConfined == p_pc # "aborted"

(* C18: with skip_api_calls set no lookup is invoked for any row, step 1 never
   stops the run, and the rows that go on to the dedupe stage are the input rows
   with every column as read. *)
C18_SkipBypasses ==
    p_skip =>
        /\ p_lookups = {}
        /\ p_pc = "step1" => p_processed = <<>> /\ p_idx = 1
        /\ p_pc \in {"citations", "dedupe"} => p_processed = p_input
        /\ p_pc = "aborted" =>
              /\ p_processed = p_input
              /\ \E i \in 1..Len(p_input) : \E e \in Entities : citation_raises(p_input[i], e)

\* the flag is set, the batch has a row that would get a title lookup and a row
\* that would get an identifier lookup, and the dedupe stage is reached
C18_Witness ==
    /\ p_skip /\ p_pc = "dedupe" /\ Len(p_input) >= 2
    /\ Branch(p_input[1], "original") = "title"
    /\ Branch(p_input[2], "original") = "doi"
    /\ p_processed = p_input

---------------------------------------------------------------------------
(* enrich applied twice with the same provider result *)

MergeKeys == {"title", "year"}
MergeValues == {None_, Str(<<>>), Str(<<"NaN">>), NaN, Str(<<"a">>), Str(<<"b">>)}
\* dicts over some of the keys
MergeDicts == UNION {[d -> MergeValues] : d \in SUBSET MergeKeys}

MergeInit ==
    /\ m_fn \in {"doi", "title"}
    /\ m_cur \in MergeDicts
    /\ m_new \in MergeDicts
    /\ m_once = NoDict /\ m_twice = NoDict
    /\ m_pc = "start"
    /\ NormIdle /\ LookupIdle /\ RowIdle /\ SanityIdle /\ IngestIdle /\ PipeIdle

\* fetch_metadata_from_doi.enrich, once and then once more
MergeDoi ==
    /\ m_fn = "doi"
    /\ \/ /\ m_pc = "start"
          /\ m_once' = enrich(m_cur, m_new)
          /\ m_pc' = "once"
          /\ UNCHANGED m_twice
       \/ /\ m_pc = "once"
          /\ m_twice' = enrich(m_once, m_new)
          /\ m_pc' = "twice"
          /\ UNCHANGED m_once
    /\ UNCHANGED <<m_fn, m_cur, m_new>>
    /\ UNCHANGED <<norm_vars, lookup_vars, row_vars, sanity_vars, ingest_vars, pipe_vars>>

\* fetch_metadata_from_title.enrich, once and then once more
MergeTitle ==
    /\ m_fn = "title"
    /\ \/ /\ m_pc = "start"
          /\ m_once' = title_enrich(m_cur, m_new)
          /\ m_pc' = "once"
          /\ UNCHANGED m_twice
       \/ /\ m_pc = "once"
          /\ m_twice' = title_enrich(m_once, m_new)
          /\ m_pc' = "twice"
          /\ UNCHANGED m_once
    /\ UNCHANGED <<m_fn, m_cur, m_new>>
    /\ UNCHANGED <<norm_vars, lookup_vars, row_vars, sanity_vars, ingest_vars, pipe_vars>>

MergeNext == MergeDoi \/ MergeTitle

SpecMerge == MergeInit /\ [][MergeNext]_vars

(* C20: for every running record r and every provider result p, merging p into
   r twice gives the same record as merging p into r once. *)
C20_MergeIdempotent == m_pc = "twice" => m_twice = m_once

\* the first merge filled a field, and p has another value for a field r had
C20_Witness ==
    /\ m_pc = "twice" /\ m_once # m_cur /\ m_twice = m_once
    /\ \E k \in DOMAIN m_cur \cap DOMAIN m_new :
          /\ m_cur[k] \notin EmptyVals /\ m_new[k] \notin EmptyVals
          /\ m_cur[k] # m_new[k]

---------------------------------------------------------------------------
(* normalize_doi applied to one argument *)

DoiAlphabet == {"http://", "https://", "dx.", "doi.org/", "10.1/", "Ab", " "}
NormInputs == {Str(x) : x \in SeqsUpTo(DoiAlphabet, MaxDoiLen)} \cup {None_, NaN}

NormInit ==
    /\ nd_in \in NormInputs
    /\ nd_out = Pending
    /\ nd_fn = "none"
    /\ LookupIdle /\ RowIdle /\ SanityIdle /\ IngestIdle /\ PipeIdle /\ MergeIdle

NormalizeIngestion ==
    /\ nd_out = Pending
    /\ nd_out' = normalize_doi(nd_in)
    /\ nd_fn' = "ingestion_engine"
    /\ UNCHANGED nd_in
    /\ UNCHANGED <<lookup_vars, row_vars, sanity_vars, ingest_vars, pipe_vars, merge_vars>>

NormalizeTitle ==
    /\ nd_out = Pending
    /\ nd_out' = title_normalize_doi(nd_in)
    /\ nd_fn' = "fetch_metadata_from_title"
    /\ UNCHANGED nd_in
    /\ UNCHANGED <<lookup_vars, row_vars, sanity_vars, ingest_vars, pipe_vars, merge_vars>>

NormNext == NormalizeIngestion \/ NormalizeTitle

SpecNorm == NormInit /\ [][NormNext]_vars

\* a bare identifier: non-empty, no surrounding whitespace, no known prefix in front
IsBare(b) ==
    /\ b # <<>>
    /\ Strip(b) = b
    /\ \A p \in KnownPrefixes : ~StartsWith(b, p)

(* C10: for every bare identifier b and known prefix p,
   normalize_doi(p + b) = b and normalize_doi(b) = b. *)
C10_PrefixOnly ==
    nd_out # Pending =>
        /\ (IsStr(nd_in) /\ IsBare(nd_in.s)) => nd_out = nd_in
        /\ \A p \in KnownPrefixes :
              (IsStr(nd_in) /\ StartsWith(nd_in.s, p)
                  /\ IsBare(SubSeq(nd_in.s, Len(p) + 1, Len(nd_in.s))))
              => nd_out = Str(SubSeq(nd_in.s, Len(p) + 1, Len(nd_in.s)))

(* C19: normalize_doi is idempotent: whenever normalize_doi(s) returns an
   identifier v, normalize_doi(v) = v. *)
C19_Idempotent ==
    (nd_out # Pending /\ IsStr(nd_out)) =>
        IF nd_fn = "ingestion_engine"
        THEN normalize_doi(nd_out) = nd_out
        ELSE title_normalize_doi(nd_out) = nd_out

=============================================================================
